---- MODULE Spec2Model ----
(***************************************************************************)
(* Label ingestion pipeline of ExpiryVision (label_watchdog_00.py):        *)
(* create-event filter, stability probe, marker-file lock, extraction      *)
(* call, bounded retry renaming and filing into Processed / Retry.         *)
(***************************************************************************)
EXTENDS Integers, Sequences, FiniteSets, TLC

(***************************************************************************)
(* Bounds of the model                                                     *)
(***************************************************************************)
\* concurrent units of work handling create-events
NumHandlers == 2
\* distinct label files the environment drops into the watched root
MaxFiles == 2
\* labels dropped while a pool of handlers works on their path
PoolFiles == 1
\* largest byte size a stat sample can report
MaxSize == 1
\* largest timeout / longest sample trace explored for the probe function
MaxTimeout == 3
\* longest stem, in tokens, of the file names given to the retry ledger
MaxStemLen == 3
\* most successive applications of increment_retry to one name
MaxApply == 3

(***************************************************************************)
(* Program constants                                                       *)
(***************************************************************************)
MAX_RETRIES == 3
LOCK_SUFFIX_IMAGE == ".png"

LOCK_SUFFIX == ".lock"
SUPPORTED_EXTENSIONS == {".jpg", ".jpeg", ".png"}
\* the retry marker segment of a stem, kept as one token of the stem
RETRY_MARK == "__retry"
\* default of wait_until_file_stable's timeout parameter
DEFAULT_TIMEOUT == 10
\* folder layout below WATCH_FOLDER
WATCH_FOLDER == << >>
PROCESSED_FOLDER == <<"Processed">>
RETRY_FOLDER == <<"Retry">>

Handlers == 1..NumHandlers
FileIds == 1..MaxFiles
Sizes == 0..MaxSize

(***************************************************************************)
(* Names.  A file name is [stem, ext]; the stem is a sequence of tokens,   *)
(* each one character or the retry marker; ext is Path.suffix.             *)
(***************************************************************************)
Digit == <<"0", "1", "2", "3", "4", "5", "6", "7", "8", "9">>

IsDigit(c) == \E d \in 1..10 : Digit[d] = c

DigitVal(c) == (CHOOSE d \in 1..10 : Digit[d] = c) - 1

\* str.lower() on the suffixes that occur
Lower(ext) ==
    CASE ext = ".JPG" -> ".jpg"
      [] ext = ".PNG" -> ".png"
      [] ext = ".JPEG" -> ".jpeg"
      [] OTHER -> ext

is_image_file_all(name) == TRUE

is_image_file(name) == Lower(name.ext) \in SUPPORTED_EXTENSIONS

\* positions of the retry marker in a stem
MarkPositions(stem) == {i \in 1..Len(stem) : stem[i] = RETRY_MARK}

Max(S) == CHOOSE m \in S : \A n \in S : n <= m

Min(S) == CHOOSE m \in S : \A n \in S : m <= n

\* stem.split("__retry")[-1]
LastSegment(stem) ==
    IF MarkPositions(stem) = {} THEN stem
    ELSE SubSeq(stem, Max(MarkPositions(stem)) + 1, Len(stem))

\* stem.split("__retry")[0]
FirstSegment(stem) ==
    IF MarkPositions(stem) = {} THEN stem
    ELSE SubSeq(stem, 1, Min(MarkPositions(stem)) - 1)

RECURSIVE DigitsValue(_)
DigitsValue(ds) ==
    IF ds = << >> THEN 0
    ELSE 10 * DigitsValue(SubSeq(ds, 1, Len(ds) - 1)) + DigitVal(ds[Len(ds)])

\* int(s): an optional sign followed by one or more decimal digits;
\* anything else raises ValueError (ok = FALSE)
ParseInt(s) ==
    LET signed == Len(s) > 0 /\ s[1] \in {"-", "+"}
        body == IF signed THEN Tail(s) ELSE s
        valid == Len(body) > 0 /\ \A i \in 1..Len(body) : IsDigit(body[i])
    IN  IF ~valid THEN [ok |-> FALSE, val |-> 0]
        ELSE [ok |-> TRUE,
              val |-> IF signed /\ s[1] = "-" THEN 0 - DigitsValue(body)
                      ELSE DigitsValue(body)]

get_retry_count(name) ==
    IF MarkPositions(name.stem) # {}
    THEN LET r == ParseInt(LastSegment(name.stem))
         IN  IF r.ok THEN r.val ELSE 0
    ELSE 0

RECURSIVE NatDigits(_)
NatDigits(n) ==
    IF n < 10 THEN <<Digit[n + 1]>>
    ELSE NatDigits(n \div 10) \o <<Digit[(n % 10) + 1]>>

FormatIntUnsigned(n) == NatDigits(IF n < 0 THEN 0 - n ELSE n)

\* f"{count}"
FormatInt(n) == IF n < 0 THEN <<"-">> \o NatDigits(0 - n) ELSE NatDigits(n)

increment_retry(name) ==
    LET count == get_retry_count(name) + 1
        base == FirstSegment(name.stem)
    IN  [stem |-> base \o <<RETRY_MARK>> \o FormatInt(count), ext |-> name.ext]

(***************************************************************************)
(* Paths and the filesystem: a function from the existing paths to the     *)
(* identity of the file stored there (0 for a lock marker).                *)
(***************************************************************************)
MkPath(dir, name) == [dir |-> dir, name |-> name]

IsPrefix(s, t) == Len(s) <= Len(t) /\ SubSeq(t, 1, Len(s)) = s

\* folder in path.parents
InFolder(folder, path) == IsPrefix(folder, path.dir)

InInternalFolder(path) ==
    InFolder(PROCESSED_FOLDER, path) \/ InFolder(RETRY_FOLDER, path)

\* path.with_suffix(path.suffix + LOCK_SUFFIX)
LockFile(path) ==
    MkPath(path.dir,
           [stem |-> IF path.name.ext = "" THEN path.name.stem
                     ELSE path.name.stem \o <<path.name.ext>>,
            ext |-> LOCK_SUFFIX])

Exists(f, p) == p \in DOMAIN f

Put(f, p, v) == [q \in DOMAIN f \cup {p} |-> IF q = p THEN v ELSE f[q]]

Remove(f, p) == [q \in DOMAIN f \ {p} |-> f[q]]

\* shutil.move of a regular file: the source disappears, the destination
\* is created or replaced
MoveFile(f, src, dst) == Put(Remove(f, src), dst, f[src])

EmptyFs == [q \in {} |-> 0]

(***************************************************************************)
(* wait_until_file_stable, lines 40-49                                     *)
(***************************************************************************)
INITIAL_LAST_ZERO == 1 - 1

\* last_size before the first sample
INITIAL_LAST == -1

\* path.stat() raises FileNotFoundError when nothing is stored at the path
STAT_ERROR == [err |-> TRUE, size |-> 0]

StatSize(n) == [err |-> FALSE, size |-> n]

\* what path.stat().st_size can yield for a path
StatSamples(f, path) ==
    IF Exists(f, path) THEN {StatSize(n) : n \in Sizes} ELSE {STAT_ERROR}

SameSizeAlways(cur, prev) == TRUE

\* current_size == last_size
SameSize(cur, prev) == cur = prev

ExhaustedTrue == "true"

\* the value returned once range(timeout) is exhausted
Exhausted == "false"

\* One pass of the loop after i samples, the next stat yielding `sample`:
\* res is "run" (loop again), "true" / "false" (returned), "raised";
\* idx counts the stat calls made so far.
LoopPass(i, prev, timeout, sample) ==
    IF i >= timeout THEN [res |-> Exhausted, idx |-> i, last |-> prev]
    ELSE IF sample.err THEN [res |-> "raised", idx |-> i + 1, last |-> prev]
    ELSE IF SameSize(sample.size, prev) THEN [res |-> "true", idx |-> i + 1, last |-> prev]
    ELSE [res |-> "run", idx |-> i + 1, last |-> sample.size]

(***************************************************************************)
(* State                                                                   *)
(***************************************************************************)
VARIABLES
    fs,        \* the watched tree: existing path -> file identity
    nfiles,    \* label files dropped so far
    renames,   \* per file identity: times renamed by the retry branch
    pc,        \* per handler: position in on_created, or how it last ended
    ev,        \* per handler: the create-event being handled
    idx,       \* per handler: samples taken by the probe loop
    last,      \* per handler: last_size of the probe loop
    rc,        \* per handler: returncode of the extraction call
    exc,       \* per handler: an exception is propagating out of the with-body
    raced,     \* per handler: another handler held the lock on its path meanwhile
    p_timeout, \* probe function run: the timeout argument
    p_trace,   \* probe function run: what stat yields at each sample
    p_idx,     \* probe function run: samples taken
    p_last,    \* probe function run: last_size
    p_res,     \* probe function run: "run", "true", "false" or "raised"
    n_start,   \* retry ledger run: the file name first given
    n_from,    \* retry ledger run: the argument of the last increment_retry
    n_name,    \* retry ledger run: the current file name
    n_count,   \* retry ledger run: applications of increment_retry so far
    mainpc,    \* main(): "watching", "stopping" (observer.stop() called), "exited"
    waited     \* main(): a call of on_created was running when stop was called

vars == <<fs, nfiles, renames, pc, ev, idx, last, rc, exc, raced,
          p_timeout, p_trace, p_idx, p_last, p_res,
          n_start, n_from, n_name, n_count, mainpc, waited>>

hvars == <<pc, ev, idx, last, rc, exc, raced>>

pvars == <<p_timeout, p_trace, p_idx, p_last, p_res>>

nvars == <<n_start, n_from, n_name, n_count>>

mvars == <<mainpc, waited>>

(***************************************************************************)
(* Events                                                                  *)
(***************************************************************************)
FreshName == [stem |-> <<"x">>, ext |-> ".jpg"]

RECURSIVE RetryChain(_, _)
RetryChain(name, n) ==
    IF n = 0 THEN {name} ELSE {name} \cup RetryChain(increment_retry(name), n - 1)

\* the names a fresh label can carry in the watched root
ChainNames == RetryChain(FreshName, MAX_RETRIES)

MkEvent(isdir, dir, name) == [is_directory |-> isdir, path |-> MkPath(dir, name)]

NoEvent == MkEvent(FALSE, <<"-">>, [stem |-> << >>, ext |-> ""])

Events ==
    {MkEvent(FALSE, WATCH_FOLDER, n) : n \in ChainNames}
    \cup {MkEvent(FALSE, WATCH_FOLDER, [stem |-> <<"x">>, ext |-> ".JPG"]),
          MkEvent(TRUE, WATCH_FOLDER, FreshName),
          MkEvent(FALSE, PROCESSED_FOLDER, FreshName),
          MkEvent(FALSE, RETRY_FOLDER, increment_retry(FreshName)),
          MkEvent(FALSE, PROCESSED_FOLDER \o <<"sub">>, FreshName),
          MkEvent(FALSE, WATCH_FOLDER, [stem |-> <<"x">>, ext |-> ".txt"]),
          MkEvent(FALSE, WATCH_FOLDER, [stem |-> <<"x">>, ext |-> ""])}
    \cup {MkEvent(FALSE, WATCH_FOLDER, LockFile(MkPath(WATCH_FOLDER, n)).name) :
             n \in ChainNames}

\* the events about one path: the fresh label in the watched root
PoolEvents == {e \in Events : e.path = MkPath(WATCH_FOLDER, FreshName)}

\* the three early returns of on_created, lines 91-102
Discarded(e) ==
    \/ e.is_directory
    \/ InInternalFolder(e.path)
    \/ ~is_image_file(e.path.name)

Terminal == {"idle", "discarded", "unstable", "locked_out", "done", "error", "raised"}

\* inside the with-block of lines 111-112, the marker being this handler's
Region == {"extract", "blocked", "file", "release"}

InRegion(h) == pc[h] \in Region

InFlight(h) == pc[h] \notin Terminal

InitPipeline ==
    /\ fs = EmptyFs
    /\ nfiles = 0
    /\ renames = [i \in FileIds |-> 0]
    /\ pc = [h \in Handlers |-> "idle"]
    /\ ev = [h \in Handlers |-> NoEvent]
    /\ idx = [h \in Handlers |-> 0]
    /\ last = [h \in Handlers |-> INITIAL_LAST]
    /\ rc = [h \in Handlers |-> 0]
    /\ exc = [h \in Handlers |-> FALSE]
    /\ raced = [h \in Handlers |-> FALSE]
    /\ mainpc = "watching"
    /\ waited = FALSE

\* no run of the probe function in hand
InitProbeIdle ==
    /\ p_timeout = 0
    /\ p_trace = << >>
    /\ p_idx = 0
    /\ p_last = INITIAL_LAST
    /\ p_res = "idle"

\* no run of the retry ledger in hand
InitNamesIdle ==
    /\ n_start = NoEvent.path.name
    /\ n_from = NoEvent.path.name
    /\ n_name = NoEvent.path.name
    /\ n_count = 0

Init ==
    /\ InitPipeline
    /\ InitProbeIdle
    /\ InitNamesIdle

\* on_created returns (or an exception leaves it): the unit of work ends
Finish(h, outcome) ==
    /\ pc' = [pc EXCEPT ![h] = outcome]
    /\ ev' = [ev EXCEPT ![h] = NoEvent]
    /\ idx' = [idx EXCEPT ![h] = 0]
    /\ last' = [last EXCEPT ![h] = INITIAL_LAST]
    /\ rc' = [rc EXCEPT ![h] = 0]
    /\ exc' = [exc EXCEPT ![h] = FALSE]
    /\ raced' = [raced EXCEPT ![h] = FALSE]

(***************************************************************************)
(* Environment                                                             *)
(***************************************************************************)
\* a label photograph appears in the watched root
Drop ==
    /\ nfiles < MaxFiles
    /\ ~Exists(fs, MkPath(WATCH_FOLDER, FreshName))
    /\ fs' = Put(fs, MkPath(WATCH_FOLDER, FreshName), nfiles + 1)
    /\ nfiles' = nfiles + 1
    /\ UNCHANGED <<renames, hvars, pvars, nvars, mvars>>

\* the operator puts a file of the retry folder back into the watched root
Refeed(name) ==
    /\ Exists(fs, MkPath(RETRY_FOLDER, name))
    /\ ~Exists(fs, MkPath(WATCH_FOLDER, name))
    /\ fs' = MoveFile(fs, MkPath(RETRY_FOLDER, name), MkPath(WATCH_FOLDER, name))
    /\ UNCHANGED <<nfiles, renames, hvars, pvars, nvars, mvars>>

\* a label waiting in the watched root is deleted or synced away
Vanish(name) ==
    /\ Exists(fs, MkPath(WATCH_FOLDER, name))
    /\ fs' = Remove(fs, MkPath(WATCH_FOLDER, name))
    /\ UNCHANGED <<nfiles, renames, hvars, pvars, nvars, mvars>>

(***************************************************************************)
(* LabelHandler.on_created                                                 *)
(***************************************************************************)
\* the watcher calls on_created(event)
Dispatch(h, e) ==
    /\ mainpc = "watching"
    /\ pc[h] \in Terminal
    /\ pc' = [pc EXCEPT ![h] = "entered"]
    /\ ev' = [ev EXCEPT ![h] = e]
    /\ raced' = [raced EXCEPT ![h] =
                   \E g \in Handlers \ {h} : InRegion(g) /\ ev[g].path = e.path]
    /\ UNCHANGED <<fs, nfiles, renames, idx, last, rc, exc, pvars, nvars, mvars>>

\* lines 91-104
Filter(h) ==
    /\ pc[h] = "entered"
    /\ pc' = [pc EXCEPT ![h] = IF Discarded(ev[h]) THEN "discarded" ELSE "probe"]
    /\ raced' = [raced EXCEPT ![h] = IF Discarded(ev[h]) THEN FALSE ELSE @]
    /\ UNCHANGED <<ev, idx, last, rc, exc>>
    /\ UNCHANGED <<fs, nfiles, renames, pvars, nvars, mvars>>

\* one pass of the loop of wait_until_file_stable(path), and lines 106-108
Sample(h) ==
    /\ pc[h] = "probe"
    /\ \E sample \in StatSamples(fs, ev[h].path) :
         LET r == LoopPass(idx[h], last[h], DEFAULT_TIMEOUT, sample)
         IN  CASE r.res = "run" ->
                    /\ idx' = [idx EXCEPT ![h] = r.idx]
                    /\ last' = [last EXCEPT ![h] = r.last]
                    /\ UNCHANGED <<pc, ev, rc, exc, raced>>
               [] r.res = "true" ->
                    /\ pc' = [pc EXCEPT ![h] = "lock"]
                    /\ idx' = [idx EXCEPT ![h] = 0]
                    /\ last' = [last EXCEPT ![h] = INITIAL_LAST]
                    /\ UNCHANGED <<ev, rc, exc, raced>>
               [] r.res = "false" -> Finish(h, "unstable")
               [] r.res = "raised" -> Finish(h, "raised")
    /\ UNCHANGED <<fs, nfiles, renames, pvars, nvars, mvars>>

LockFreeAlways(f, path) == TRUE

\* lock_file.touch(exist_ok=False) succeeds
LockFree(f, path) == ~Exists(f, LockFile(path))

\* file_lock entry, lines 71-76, and the handler of line 114
Acquire(h) ==
    /\ pc[h] = "lock"
    /\ IF LockFree(fs, ev[h].path)
       THEN /\ fs' = Put(fs, LockFile(ev[h].path), 0)
            /\ pc' = [pc EXCEPT ![h] = "extract"]
            /\ raced' = [g \in Handlers |->
                           IF g # h /\ InFlight(g) /\ ev[g].path = ev[h].path
                           THEN TRUE ELSE raced[g]]
            /\ UNCHANGED <<ev, idx, last, rc, exc>>
       ELSE /\ Finish(h, "locked_out")
            /\ UNCHANGED fs
    /\ UNCHANGED <<nfiles, renames, pvars, nvars, mvars>>

\* subprocess.run without timeout, lines 123-127: returns an exit
\* status, raises, or waits for a child that never exits
Extract(h) ==
    /\ pc[h] = "extract"
    /\ \/ \E code \in {0, 1} :
            /\ rc' = [rc EXCEPT ![h] = code]
            /\ pc' = [pc EXCEPT ![h] = "file"]
            /\ UNCHANGED exc
       \/ /\ exc' = [exc EXCEPT ![h] = TRUE]
          /\ pc' = [pc EXCEPT ![h] = "release"]
          /\ UNCHANGED rc
       \/ /\ pc' = [pc EXCEPT ![h] = "blocked"]
          /\ UNCHANGED <<rc, exc>>
    /\ UNCHANGED <<fs, nfiles, renames, ev, idx, last, raced, pvars, nvars, mvars>>

ShouldRetryInclusive(count) == count <= MAX_RETRIES

\* retry_count < MAX_RETRIES
ShouldRetry(count) == count < MAX_RETRIES

ProcessedDestinationRenamed(path) == MkPath(PROCESSED_FOLDER, increment_retry(path.name))

\* PROCESSED_FOLDER / path.name
ProcessedDestination(path) == MkPath(PROCESSED_FOLDER, path.name)

\* RETRY_FOLDER / increment_retry(path).name
RetryDestination(path) == MkPath(RETRY_FOLDER, increment_retry(path.name))

\* where process_file moves the file; the path itself when it moves nothing
Destination(path, code) ==
    IF code = 0 THEN ProcessedDestination(path)
    ELSE IF ShouldRetry(get_retry_count(path.name)) THEN RetryDestination(path)
    ELSE path

\* process_file after the call, lines 129-148
File(h) ==
    /\ pc[h] = "file"
    /\ LET src == ev[h].path
           dst == Destination(src, rc[h])
       IN  IF dst = src
           THEN UNCHANGED <<fs, renames, exc>>
           ELSE IF Exists(fs, src)
           THEN /\ fs' = MoveFile(fs, src, dst)
                /\ renames' = IF rc[h] = 0 THEN renames
                              ELSE [renames EXCEPT ![fs[src]] = @ + 1]
                /\ UNCHANGED exc
           ELSE /\ exc' = [exc EXCEPT ![h] = TRUE]
                /\ UNCHANGED <<fs, renames>>
    /\ pc' = [pc EXCEPT ![h] = "release"]
    /\ UNCHANGED <<nfiles, ev, idx, last, rc, raced, pvars, nvars, mvars>>

ReleaseFsUnlessRaised(f, path, raised) == IF raised THEN f ELSE Remove(f, LockFile(path))

\* the finally block of file_lock, lines 80-82
ReleaseFs(f, path, raised) == Remove(f, LockFile(path))

\* leaving the with-block, and the handler of line 117
Release(h) ==
    /\ pc[h] = "release"
    /\ fs' = ReleaseFs(fs, ev[h].path, exc[h])
    /\ Finish(h, IF exc[h] THEN "error" ELSE "done")
    /\ UNCHANGED <<nfiles, renames, pvars, nvars, mvars>>

HandlerStep(h) ==
    \/ Filter(h)
    \/ Sample(h)
    \/ Acquire(h)
    \/ Extract(h)
    \/ File(h)
    \/ Release(h)

JoinReadyAlways == TRUE

\* observer.join() returns: the observer thread is in no call of on_created
JoinReady == \A h \in Handlers : ~InFlight(h)

\* KeyboardInterrupt in the loop of main, lines 163-167: observer.stop()
Interrupt ==
    /\ mainpc = "watching"
    /\ mainpc' = "stopping"
    /\ waited' = \E h \in Handlers : pc[h] = "extract"
    /\ UNCHANGED <<fs, nfiles, renames, hvars, pvars, nvars>>

\* observer.join() returns and main ends, line 169
Join ==
    /\ mainpc = "stopping"
    /\ JoinReady
    /\ mainpc' = "exited"
    /\ UNCHANGED <<fs, nfiles, renames, hvars, pvars, nvars, waited>>

Environment ==
    \/ Drop
    \/ \E n \in ChainNames : Refeed(n)
    \/ \E n \in ChainNames : Vanish(n)

(***************************************************************************)
(* main(): one LabelHandler on one observer; the observer thread calls     *)
(* on_created for one event at a time.                                     *)
(***************************************************************************)
Next ==
    \/ Environment
    \/ \E e \in Events : Dispatch(1, e)
    \/ \E h \in Handlers : HandlerStep(h)
    \/ Interrupt
    \/ Join

Spec == Init /\ [][Next]_vars

\* a thread inside on_created keeps running
SpecLive == Spec /\ \A h \in Handlers : WF_vars(HandlerStep(h))

(***************************************************************************)
(* A pool of workers handling create-events for one path concurrently;     *)
(* the only other writer is the one dropping the label.                    *)
(***************************************************************************)
NextPool ==
    \/ (nfiles < PoolFiles /\ Drop)
    \/ \E h \in Handlers, e \in PoolEvents : Dispatch(h, e)
    \/ \E h \in Handlers : HandlerStep(h)

SpecPool == Init /\ [][NextPool]_vars

(***************************************************************************)
(* wait_until_file_stable as a function of its timeout and of the          *)
(* samples stat yields.                                                    *)
(***************************************************************************)
Timeouts == 0..MaxTimeout

InitProbe ==
    /\ InitPipeline
    /\ InitNamesIdle
    /\ p_timeout \in Timeouts
    /\ p_trace \in [1..MaxTimeout -> {StatSize(n) : n \in Sizes} \cup {STAT_ERROR}]
    /\ p_idx = 0
    /\ p_last = INITIAL_LAST
    /\ p_res = "run"

ProbePass ==
    /\ p_res = "run"
    /\ LET r == LoopPass(p_idx, p_last, p_timeout,
                         IF p_idx < p_timeout THEN p_trace[p_idx + 1] ELSE STAT_ERROR)
       IN  /\ p_res' = r.res
           /\ p_idx' = r.idx
           /\ p_last' = r.last
    /\ UNCHANGED <<fs, nfiles, renames, hvars, p_timeout, p_trace, nvars, mvars>>

NextProbe == ProbePass

SpecProbe == InitProbe /\ [][NextProbe]_vars

(***************************************************************************)
(* The retry ledger, get_retry_count and increment_retry, as functions of  *)
(* the file name.                                                          *)
(***************************************************************************)
\* what a stem is made of: letters, digits, a sign, the retry marker
StemTokens == {"x", RETRY_MARK, "1", "9", "-"}

RECURSIVE StemsOfLen(_)
StemsOfLen(n) ==
    IF n = 0 THEN {<< >>}
    ELSE {Append(t, c) : t \in StemsOfLen(n - 1), c \in StemTokens}

Stems == UNION {StemsOfLen(n) : n \in 0..MaxStemLen}

LedgerNames == {[stem |-> t, ext |-> e] : t \in Stems, e \in {".jpg", ""}}

InitNames ==
    /\ InitPipeline
    /\ InitProbeIdle
    /\ n_start \in LedgerNames
    /\ n_from = n_start
    /\ n_name = n_start
    /\ n_count = 0

\* path := increment_retry(path)
ApplyIncrement ==
    /\ n_count < MaxApply
    /\ n_from' = n_name
    /\ n_name' = increment_retry(n_name)
    /\ n_count' = n_count + 1
    /\ UNCHANGED <<fs, nfiles, renames, hvars, pvars, n_start, mvars>>

NextNames == ApplyIncrement

SpecNames == InitNames /\ [][NextNames]_vars

(***************************************************************************)
(* Properties                                                              *)
(***************************************************************************)
RootPath(name) == MkPath(WATCH_FOLDER, name)

Stepped(h) == pc'[h] # pc[h] \/ idx'[h] # idx[h]

\* C1: of two handlers handling create-events for the same path at
\* overlapping times, only one proceeds to extraction: a handler during
\* whose handling another handler held the lock on its path never
\* acquires the lock itself (it creates no marker and moves nothing).
C1_ExactlyOneProceeds ==
    \A h \in Handlers : raced[h] => ~InRegion(h)

\* C2: at most one lock per path is held at any instant; file_lock fails
\* exactly when the marker exists and then leaves the filesystem as it
\* was; when the marker is absent it succeeds and creates it; after the
\* holder's release the marker is absent, so the next file_lock succeeds.
C2_OneHolder ==
    \A h \in Handlers : InRegion(h) =>
        /\ Exists(fs, LockFile(ev[h].path))
        /\ \A g \in Handlers \ {h} : InRegion(g) => ev[g].path # ev[h].path

C2_LockStep ==
    \A h \in Handlers :
        /\ (pc[h] = "lock" /\ pc'[h] # "lock") =>
              IF LockFile(ev[h].path) \in DOMAIN fs
              THEN pc'[h] = "locked_out" /\ fs' = fs
              ELSE pc'[h] = "extract" /\ LockFile(ev[h].path) \in DOMAIN fs'
        /\ (pc[h] = "release" /\ pc'[h] # "release") =>
              LockFile(ev[h].path) \notin DOMAIN fs'

C2_LockExclusive == []C2_OneHolder /\ [][C2_LockStep]_vars

C2_Witness ==
    \E h, g \in Handlers :
        /\ pc[h] = "locked_out"
        /\ InRegion(g)
        /\ Exists(fs, LockFile(ev[g].path))

\* C3: every exit of the protected region (filed to Processed, filed to
\* Retry, retries exhausted, exception of the extraction call or of the
\* move) passes through the release, after which the marker of the path
\* does not exist.
C3_Exit ==
    \A h \in Handlers :
        (InRegion(h) /\ pc'[h] \notin Region) =>
            /\ pc[h] = "release"
            /\ pc'[h] = (IF exc[h] THEN "error" ELSE "done")
            /\ LockFile(ev[h].path) \notin DOMAIN fs'

C3_ReleasedOnEveryExit == [][C3_Exit]_vars

C3_Witness ==
    \E h \in Handlers :
        /\ pc[h] = "error"
        /\ \A n \in ChainNames : ~Exists(fs, LockFile(RootPath(n)))

\* the names of the retry sequence of x.jpg, written out
XRetry(k) ==
    [stem |-> <<"x", "__retry", Digit[k + 1]>>, ext |-> ".jpg"]

\* C4: a failed extraction on a file whose retry count is below
\* MAX_RETRIES moves it to the retry folder under increment_retry's name;
\* the fresh x.jpg, re-fed after each failure, is filed as x__retry1.jpg,
\* x__retry2.jpg, x__retry3.jpg and is renamed at most MAX_RETRIES times.
C4_RetryMove ==
    \A h \in Handlers :
        LET src == ev[h].path
            dst == MkPath(RETRY_FOLDER, increment_retry(src.name))
        IN  (/\ pc[h] = "file"
             /\ pc'[h] = "release"
             /\ rc[h] # 0
             /\ get_retry_count(src.name) < MAX_RETRIES
             /\ src \in DOMAIN fs) =>
                /\ dst \in DOMAIN fs'
                /\ fs'[dst] = fs[src]
                /\ src \notin DOMAIN fs'
                /\ renames'[fs[src]] = renames[fs[src]] + 1

C4_Chain ==
    /\ \A i \in FileIds : renames[i] <= MAX_RETRIES
    /\ \A q \in DOMAIN fs :
          fs[q] \in FileIds =>
             /\ renames[fs[q]] = 0 => q.name = FreshName
             /\ renames[fs[q]] > 0 => q.name = XRetry(renames[fs[q]])
             /\ q.dir = RETRY_FOLDER => renames[fs[q]] > 0

C4_RetrySequence == []C4_Chain /\ [][C4_RetryMove]_vars

C4_Witness ==
    \E i \in FileIds :
        /\ renames[i] = MAX_RETRIES
        /\ Exists(fs, MkPath(RETRY_FOLDER, XRetry(3)))
        /\ fs[MkPath(RETRY_FOLDER, XRetry(3))] = i

\* C5: a failed extraction on a file whose retry count is at least
\* MAX_RETRIES leaves the file in the retry folder under its unchanged
\* name, and not in the watched root.
C5_Stuck ==
    \A h \in Handlers :
        LET src == ev[h].path
        IN  (/\ pc[h] = "file"
             /\ pc'[h] = "release"
             /\ rc[h] # 0
             /\ get_retry_count(src.name) >= MAX_RETRIES
             /\ src \in DOMAIN fs) =>
                /\ MkPath(RETRY_FOLDER, src.name) \in DOMAIN fs'
                /\ src \notin DOMAIN fs'

C5_StuckInRetryFolder == [][C5_Stuck]_vars

\* C6: after exit status 0 the file is moved to the processed folder
\* under the name it had in the watched root; nothing is renamed and the
\* retry folder is left as it was.
C6_Success ==
    \A h \in Handlers :
        LET src == ev[h].path
            dst == MkPath(PROCESSED_FOLDER, src.name)
        IN  (/\ pc[h] = "file"
             /\ pc'[h] = "release"
             /\ rc[h] = 0
             /\ src \in DOMAIN fs) =>
                /\ dst \in DOMAIN fs'
                /\ fs'[dst] = fs[src]
                /\ DOMAIN fs' = (DOMAIN fs \ {src}) \cup {dst}
                /\ renames' = renames
                /\ ~exc'[h]

C6_ProcessedUnchangedName == [][C6_Success]_vars

C6_Witness ==
    /\ Exists(fs, MkPath(PROCESSED_FOLDER, XRetry(2)))
    /\ \A n \in ChainNames : ~Exists(fs, RootPath(n))

\* C7: a create-event for a directory, for a path inside the processed or
\* retry folder, or for a file whose extension is not supported ends the
\* handler at once: no probe, no lock, no extraction, no move; the
\* filesystem is unchanged.
C7_Ignored(e) ==
    \/ e.is_directory
    \/ \E k \in 1..Len(e.path.dir) : SubSeq(e.path.dir, 1, k) \in {<<"Processed">>, <<"Retry">>}
    \/ e.path.name.ext \notin {".jpg", ".jpeg", ".png", ".JPG", ".JPEG", ".PNG"}

C7_Discard ==
    \A h \in Handlers :
        (pc[h] = "entered" /\ C7_Ignored(ev[h]) /\ Stepped(h)) =>
            /\ pc'[h] = "discarded"
            /\ fs' = fs
            /\ renames' = renames

C7_IgnoredEventsChangeNothing == [][C7_Discard]_vars

C7_Witness ==
    /\ pc[1] = "discarded"
    /\ Exists(fs, RootPath(FreshName))

\* C8: the lock marker of a path is created only by a handler whose probe
\* of that path has just returned true, which takes a sample equal to the
\* one before it; a probe that has taken DEFAULT_TIMEOUT samples, each
\* different from the one before, ends the handling with the filesystem
\* untouched.
C8_Order ==
    \A h \in Handlers :
        /\ (pc'[h] = "lock" /\ pc[h] # "lock") =>
              /\ pc[h] = "probe"
              /\ idx[h] >= 1
              /\ idx[h] < DEFAULT_TIMEOUT
              /\ fs' = fs
        /\ (pc'[h] = "extract" /\ pc[h] # "extract") => pc[h] = "lock"
        /\ (pc[h] = "probe" /\ idx[h] >= DEFAULT_TIMEOUT /\ Stepped(h)) =>
              /\ pc'[h] = "unstable"
              /\ fs' = fs
        /\ \A e \in Events :
              (LockFile(e.path) \in DOMAIN fs' /\ LockFile(e.path) \notin DOMAIN fs) =>
                 \E g \in Handlers :
                    pc[g] = "lock" /\ ev[g].path = e.path /\ pc'[g] = "extract"

C8_LockOnlyAfterStable == [][C8_Order]_vars

C8_Witness ==
    /\ pc[1] = "unstable"
    /\ Exists(fs, RootPath(FreshName))
    /\ ~Exists(fs, LockFile(RootPath(FreshName)))

\* the samples the probe function run has taken so far
Taken == 1..p_idx

NoneEqual(n) == \A j \in 2..n : p_trace[j].size # p_trace[j - 1].size

Returned == p_res \in {"true", "false"}

\* a file whose size never changes once observed: every sample reads the
\* same size, and no read fails
SteadyFile ==
    \A j \in 1..MaxTimeout : ~p_trace[j].err /\ p_trace[j].size = p_trace[1].size

\* what C9 says of every run, whatever the timeout
C9_Contract ==
    /\ p_idx <= p_timeout
    /\ Returned => \A j \in Taken : ~p_trace[j].err
    /\ p_res = "true" =>
          /\ p_idx >= 2
          /\ p_trace[p_idx].size = p_trace[p_idx - 1].size
          /\ NoneEqual(p_idx - 1)
    /\ p_res = "false" =>
          /\ p_idx = p_timeout
          /\ NoneEqual(p_timeout)

\* C9 as claimed: at most timeout samples, true at the first sample equal
\* to the one before it, false after timeout samples without such a
\* pair; and a steady file is confirmed stable within timeout samples for
\* every timeout of at least 1.
C9_StableForEveryTimeout ==
    /\ C9_Contract
    /\ (p_timeout >= 1 /\ SteadyFile /\ p_res # "run") =>
          p_res = "true" /\ p_idx <= p_timeout

\* C9 as amended: the same, the steady file being confirmed stable for
\* every timeout of at least 2 (it takes two samples, the second equal to
\* the first).
C9_StableFromTimeoutTwo ==
    /\ C9_Contract
    /\ (p_timeout >= 2 /\ SteadyFile /\ p_res # "run") =>
          p_res = "true" /\ p_idx = 2

C9_Witness ==
    /\ p_timeout = MaxTimeout
    /\ SteadyFile
    /\ p_res = "true"
    /\ p_idx = 2

\* C10: a failed size read never leaves the probe as an exception: no
\* handling of a create-event ends by the probe raising.
C10_ProbeNeverRaises ==
    \A h \in Handlers : pc[h] # "raised"

\* C11: no error of the handling of one create-event leaves on_created:
\* every handling ends by on_created returning, whatever went wrong
\* (already locked, unstable, extraction failed, retries exhausted, a
\* filesystem error while probing, locking or moving).
C11_Ending ==
    \A h \in Handlers :
        (pc[h] \notin Terminal /\ pc'[h] \in Terminal) =>
            pc'[h] \in {"discarded", "unstable", "locked_out", "done", "error"}

C11_NoErrorEscapes == [][C11_Ending]_vars



\* C12: increment_retry keeps the base name and the extension and raises
\* the retry count by exactly one; applied N times to a name without
\* retry marker it yields retry count N; so the count strictly increases
\* along the chain of one base name.
C12_IncrementByOne ==
    /\ FirstSegment(n_name.stem) = FirstSegment(n_start.stem)
    /\ n_name.ext = n_start.ext
    /\ n_count > 0 =>
          /\ get_retry_count(n_name) = get_retry_count(n_from) + 1
          /\ get_retry_count(n_name) = get_retry_count(n_start) + n_count
    /\ MarkPositions(n_start.stem) = {} => get_retry_count(n_name) = n_count

C12_Witness ==
    /\ MarkPositions(n_start.stem) = {}
    /\ n_count = MaxApply
    /\ get_retry_count(n_name) = MaxApply
    /\ n_name.stem = n_start.stem \o <<RETRY_MARK>> \o NatDigits(MaxApply)

\* the payload after the last retry marker, and whether it is a retry
\* number: one or more decimal digits
C13_Payload == LastSegment(n_name.stem)

C13_IsNumber ==
    /\ MarkPositions(n_name.stem) # {}
    /\ Len(C13_Payload) > 0
    /\ \A i \in 1..Len(C13_Payload) : C13_Payload[i] \in {"1", "9"}

\* C13: get_retry_count is at least 0 for every file name: the number
\* after the retry marker when that is a retry number, and 0 when there
\* is no marker or the payload is malformed (empty, not numeric, signed).
C13_CountAtLeastZero ==
    /\ get_retry_count(n_name) >= 0
    /\ C13_IsNumber => get_retry_count(n_name) = DigitsValue(C13_Payload)
    /\ ~C13_IsNumber => get_retry_count(n_name) = 0

\* the paths at which the file of identity i is stored
Where(f, i) == {q \in DOMAIN f : f[q] = i}

\* C14: no step of a handler takes a watched file out of the state of
\* being stored in exactly one of the watched root, the processed folder
\* and the retry folder: after the step it is still at exactly one path.
C14_Kept ==
    (\E h \in Handlers : Stepped(h)) =>
        \A i \in FileIds :
            Cardinality(Where(fs, i)) = 1 => Cardinality(Where(fs', i)) = 1

C14_ExactlyOneFolder == [][C14_Kept]_vars

\* C15: a file stored in the processed folder stays there, the same file
\* under the same name, whatever happens later.
C15_Stays ==
    \A q \in DOMAIN fs :
        q.dir = PROCESSED_FOLDER => (q \in DOMAIN fs' /\ fs'[q] = fs[q])

C15_ProcessedIsFinal == [][C15_Stays]_vars

\* C16: every call of on_created eventually returns to the observer,
\* whatever the file's size does and whatever the extraction child does.
C16_EveryHandlerReturns ==
    \A h \in Handlers : (pc[h] = "entered") ~> (pc[h] \in Terminal)

\* the stored files other than lock markers
Photos(f) == [q \in {p \in DOMAIN f : f[p] # 0} |-> f[q]]

\* handler h holds the lock of the path of its event: it is inside the
\* with-block, the marker is on disk, and no other handler is inside a
\* with-block for the same path
HoldsLock(h) ==
    /\ InRegion(h)
    /\ Exists(fs, LockFile(ev[h].path))
    /\ \A g \in Handlers \ {h} : InRegion(g) => ev[g].path # ev[h].path

\* C17: the extraction call is made, and a file is renamed or moved, only
\* by a handler that holds the lock marker of the path of its event, and
\* the marker is still there when the move is over.
C17_UnderLock ==
    \A h \in Handlers :
        /\ (pc[h] \in {"extract", "file"} /\ pc'[h] # pc[h]) => HoldsLock(h)
        /\ (pc[h] = "file" /\ pc'[h] # pc[h]) => Exists(fs', LockFile(ev[h].path))
        /\ (Stepped(h) /\ Photos(fs') # Photos(fs)) =>
               (pc[h] = "file" /\ HoldsLock(h))

C17_ExtractAndMoveOnlyUnderLock == [][C17_UnderLock]_vars

C17_Witness ==
    \E h \in Handlers :
        /\ pc[h] = "release"
        /\ rc[h] = 0
        /\ ~exc[h]
        /\ HoldsLock(h)
        /\ ~Exists(fs, ev[h].path)
        /\ Exists(fs, MkPath(PROCESSED_FOLDER, ev[h].path.name))

\* no lock marker is stored
NoMarker(f) == \A q \in DOMAIN f : f[q] # 0

\* C18: once shutdown is requested no further create-event is handed to
\* the handler; main returns only when no call of on_created is running,
\* and at that point no lock marker is on disk.  (That the handling in
\* flight runs on to its end is what the witness shows.)
C18_Step ==
    /\ mainpc # "watching" =>
           \A h \in Handlers : ~(pc[h] \in Terminal /\ pc'[h] = "entered")
    /\ (mainpc # "exited" /\ mainpc' = "exited") =>
           /\ mainpc = "stopping"
           /\ \A h \in Handlers : ~InFlight(h)
    /\ mainpc' = "exited" =>
           /\ NoMarker(fs')
           /\ \A h \in Handlers : pc'[h] \in Terminal

C18_GracefulShutdown == [][C18_Step]_vars

\* the interrupt came during the extraction of the only file, and main
\* has returned with that file filed
C18_Witness ==
    /\ mainpc = "exited"
    /\ waited
    /\ nfiles = 1
    /\ pc[1] = "done"
    /\ Exists(fs, MkPath(PROCESSED_FOLDER, FreshName))
    /\ NoMarker(fs)

\* the create-events of the markers file_lock puts in the watched root
MarkerEvents ==
    {e \in Events : /\ ~e.is_directory
                    /\ \E n \in ChainNames : e.path = LockFile(RootPath(n))}

\* C19: the handling of the create-event of a lock marker ends at the
\* extension filter with the filesystem as it was: it is never probed,
\* locked, extracted or moved, and no marker of a marker is ever stored.
C19_Step ==
    \A h \in Handlers :
        /\ (ev[h] \in MarkerEvents /\ Stepped(h) /\ pc[h] = "entered") =>
               (pc'[h] = "discarded" /\ fs' = fs)
        /\ ev'[h] \in MarkerEvents => pc'[h] \in {"entered", "discarded"}
        /\ \A e \in MarkerEvents : ~Exists(fs', LockFile(e.path))

C19_MarkerEventsDiscarded == [][C19_Step]_vars

\* a marker's event discarded after the marked file was handled and filed
C19_Witness ==
    /\ pc[1] = "discarded"
    /\ ev[1] \in MarkerEvents
    /\ ev[1].path = LockFile(RootPath(FreshName))
    /\ Exists(fs, MkPath(PROCESSED_FOLDER, FreshName))

====
